---- MODULE Spec2Model ----
(***************************************************************************)
(* Pupil_Diameter_LSL_Relay (src/pupil_lsl_diameter_relay.py).             *)
(*                                                                         *)
(* Two threads: the host thread (constructor, UI setter set_value,         *)
(* shutdown_thread_loop) and the relay worker thread (thread_loop).        *)
(* They share the attribute thread_pipe and the control channel (a zmq     *)
(* PAIR pipe); the worker also reads the data inlet (a zmq SUB socket).    *)
(*                                                                         *)
(* Strings are sequences of tokens, so that str.startswith is computed:    *)
(* 'pupil.' is <<"pupil.">> and 'pupil.0' is <<"pupil.", "0">>.            *)
(* Floats are integers: -1.0 is -1, 0.0 is 0.                              *)
(***************************************************************************)
EXTENDS Integers, Sequences, FiniteSets, TLC

\* ---------------------------------------------------------------- bounds
\* number of set_value calls the host makes
MaxSends == 2
\* number of messages the publishers put on the data channel
MaxPublish == 2
\* timestamps and clock readings range over 1..MaxTime
MaxTime == 2

\* ------------------------------------------------------------- constants
NOTIFY_SUB_TOPIC == <<"notify.">>
PUPIL_SUB_TOPIC == <<"pupil.">>

\* the literal frames of the control protocol
ExitCmd == <<"Exit">>
SubscribeCmd == <<"Subscribe">>
UnsubscribeCmd == <<"Unsubscribe">>

\* the topic prefixes a command of the host can name
SubTopics == {PUPIL_SUB_TOPIC, NOTIFY_SUB_TOPIC}

\* a topic prefix and a command verb the relay does not know
OtherTopic == <<"gaze.">>
UnknownCmd == <<"Ping">>

\* the topic prefixes the inlet can be subscribed to
InletTopics == SubTopics \cup {OtherTopic}

Times == 1..MaxTime

\* ------------------------------------------------------ data channel input
\* pupil payloads the publisher may send: well formed ones from both eyes,
\* ones that lack a field, and ones with a source id outside {0, 1}
PupilPayloads ==
    {[id |-> i, diameter |-> 3, confidence |-> 1, timestamp |-> t] :
        i \in {0, 1}, t \in Times}
    \cup {[id |-> 0, confidence |-> 1, timestamp |-> 1]}
    \cup {[id |-> i, diameter |-> 4, confidence |-> 1, timestamp |-> 1] :
        i \in {2, -1}}
    \cup {[id |-> 0, diameter |-> 4, timestamp |-> 1]}

NotifyPayloads ==
    {[subject |-> "recording.started", timestamp |-> 1],
     [timestamp |-> 1]}

Messages ==
    {[topic |-> <<"pupil.", "0">>, payload |-> p] : p \in PupilPayloads}
    \cup {[topic |-> <<"notify.", "recording.started">>, payload |-> p] :
            p \in NotifyPayloads}
    \cup {[topic |-> <<"gaze.", "3d">>, payload |-> [timestamp |-> 1]]}

\* ------------------------------------------------------------ pure helpers
\* str.startswith
StartsWith(s, prefix) ==
    /\ Len(prefix) <= Len(s)
    /\ SubSeq(s, 1, Len(prefix)) = prefix

Max(a, b) == IF a >= b THEN a ELSE b

\* dict.__getitem__ raises KeyError when the key is absent
HasKey(payload, key) == key \in DOMAIN payload

\* _generate_primitive_sample: (diameter or -1.0, confidence, timestamp);
\* defined when confidence and timestamp are present
_generate_primitive_sample_ok(payload) ==
    HasKey(payload, "confidence") /\ HasKey(payload, "timestamp")

_generate_primitive_sample(payload) ==
    << IF HasKey(payload, "diameter") THEN payload["diameter"] ELSE -1,
       payload["confidence"],
       payload["timestamp"] >>

\* _create_buffer returning a list with one tuple only
_create_buffer_oneSlot(t0) == [i \in {0} |-> <<-1, 0, t0>>]

\* _create_buffer: a list of two tuples, indexed 0 and 1
_create_buffer(t0) == [i \in {0, 1} |-> <<-1, 0, t0>>]

\* the local pupil_buffer before its first assignment
UnboundBuffer == <<>>

\* list.__setitem__ on a list of length 2: indices -2..1 are accepted,
\* a negative index counts from the end, anything else is an IndexError
IndexOk(eyeid) == eyeid \in -2..1

ListIndex(eyeid) == IF eyeid < 0 THEN 2 + eyeid ELSE eyeid

\* _update_buffer storing the sample in the other eye's slot
_update_buffer_otherSlot(eyeid, buffer, sample) ==
    [buffer EXCEPT ![1 - ListIndex(eyeid)] = sample]

_update_buffer(eyeid, buffer, sample) ==
    [buffer EXCEPT ![ListIndex(eyeid)] = sample]

\* buffer2sample with the channels ordered per eye instead of per quantity
buffer2sample_perEye(buffer) ==
    << buffer[0][1], buffer[0][2],
       buffer[1][1], buffer[1][2],
       Max(buffer[0][3], buffer[1][3]) >>

buffer2sample(buffer) ==
    << buffer[0][1], buffer[1][1],
       buffer[0][2], buffer[1][2],
       Max(buffer[0][3], buffer[1][3]) >>

\* repr(payload): the textual rendering of the mapping
Repr(payload) == <<"repr", payload>>

\* ------------------------------------------------------------------ state
VARIABLES
    \* host object
    hostPc,              \* position of the host thread
    relay_pupil,         \* self.relay_pupil
    relay_notifications, \* self.relay_notifications
    thread_pipe,         \* self.thread_pipe: "unset", "handle" or "None"
    alive,               \* self.alive
    hostFrame,           \* first frame of a two-frame send not yet completed
    hostError,           \* the host called send_string on None
    nSent,               \* set_value calls made so far
    \* channels
    pipe,                \* frames queued on the control channel
    inletQ,              \* messages queued on the data inlet
    subs,                \* subscriptions of the inlet, counted per prefix
    nPublished,          \* messages published so far
    \* worker thread (thread_loop)
    pc,                  \* position of the worker
    pupil_outlet,        \* local: "None" or "outlet"
    notification_outlet, \* local: "None" or "outlet"
    pupil_outlets,       \* local: "unbound", "None" or "outlet"
    pupil_buffer,        \* local: UnboundBuffer or the two-slot buffer
    error,               \* exception that ended the try block, or "none"
    \* streaming layer
    lsl_outlets,         \* outlets that exist (are referenced)
    pupil_pushed,        \* samples pushed to the pupil outlet
    notify_pushed,       \* samples pushed to the notification outlet
    \* history
    pupil_cmd            \* last command naming 'pupil.' the worker received

hostVars == <<hostPc, relay_pupil, relay_notifications, hostFrame, hostError,
              nSent>>
workerVars == <<pc, pupil_outlet, notification_outlet, pupil_outlets,
                pupil_buffer, error>>
sinkVars == <<lsl_outlets, pupil_pushed, notify_pushed, pupil_cmd>>
vars == <<hostPc, relay_pupil, relay_notifications, thread_pipe, alive,
          hostFrame, hostError, nSent, pipe, inletQ, subs, nPublished,
          pc, pupil_outlet, notification_outlet, pupil_outlets,
          pupil_buffer, error, lsl_outlets, pupil_pushed, notify_pushed,
          pupil_cmd>>

\* ------------------------------------------------------------------- Init
\* __init__ has set the two flags and zthread_fork has started the worker
\* thread; the handle it returns is not yet stored in self.thread_pipe
Init ==
    /\ hostPc = "init"
    /\ relay_pupil \in BOOLEAN
    /\ relay_notifications \in BOOLEAN
    /\ thread_pipe = "unset"
    /\ alive = TRUE
    /\ hostFrame = <<>>
    /\ hostError = FALSE
    /\ nSent = 0
    /\ pipe = <<>>
    /\ inletQ = <<>>
    /\ subs = [t \in InletTopics |-> 0]
    /\ nPublished = 0
    /\ pc = "start"
    /\ pupil_outlet = "None"
    /\ notification_outlet = "None"
    /\ pupil_outlets = "unbound"
    /\ pupil_buffer = UnboundBuffer
    /\ error = "none"
    /\ lsl_outlets = {}
    /\ pupil_pushed = <<>>
    /\ notify_pushed = <<>>
    /\ pupil_cmd = <<>>

\* --------------------------------------------------------------- transport
\* Msg_Receiver.subscribe / unsubscribe: a SUB socket counts its filters
Subscribe(s, topic) ==
    IF topic \in DOMAIN s THEN [s EXCEPT ![topic] = @ + 1] ELSE s

Unsubscribe(s, topic) ==
    IF topic \in DOMAIN s /\ s[topic] > 0
    THEN [s EXCEPT ![topic] = @ - 1] ELSE s

\* the SUB socket accepts a message when one of its filters is a prefix
Accepts(s, topic) ==
    \E p \in DOMAIN s : s[p] > 0 /\ StartsWith(topic, p)

\* a publisher sends a message on the backbone
Publish ==
    /\ nPublished < MaxPublish
    /\ pc # "stopped"
    /\ \E m \in Messages :
        /\ Accepts(subs, m.topic)
        /\ inletQ' = Append(inletQ, m)
    /\ nPublished' = nPublished + 1
    /\ UNCHANGED <<hostVars, thread_pipe, alive, pipe, subs, workerVars,
                   sinkVars>>

\* -------------------------------------------------------------------- host
\* __init__, line 132: the handle returned by zthread_fork is stored
HostStoreHandle ==
    /\ hostPc = "init"
    /\ hostPc' = "idle"
    /\ thread_pipe' = "handle"
    /\ UNCHANGED <<relay_pupil, relay_notifications, alive, hostFrame,
                   hostError, nSent, pipe, inletQ, subs, nPublished,
                   workerVars, sinkVars>>

\* set_value, lines 141-143: setattr, choose cmd, send the first frame with
\* SNDMORE; a multipart message is delivered when its last frame is sent
SetValueFirst(sub_topic, value) ==
    /\ hostPc = "idle"
    /\ nSent < MaxSends
    /\ nSent' = nSent + 1
    /\ IF sub_topic = PUPIL_SUB_TOPIC
       THEN relay_pupil' = value /\ UNCHANGED relay_notifications
       ELSE relay_notifications' = value /\ UNCHANGED relay_pupil
    /\ IF thread_pipe = "handle"
       THEN /\ hostFrame' = <<IF value THEN SubscribeCmd ELSE UnsubscribeCmd,
                              sub_topic>>
            /\ hostPc' = "set_value"
            /\ UNCHANGED hostError
       ELSE /\ hostError' = TRUE
            /\ hostPc' = "idle"
            /\ UNCHANGED hostFrame
    /\ UNCHANGED <<thread_pipe, alive, pipe, inletQ, subs, nPublished,
                   workerVars, sinkVars>>

\* set_value, line 144: send the topic frame, which completes the message
SetValueSecond ==
    /\ hostPc = "set_value"
    /\ hostPc' = "idle"
    /\ hostFrame' = <<>>
    /\ IF thread_pipe = "handle"
       THEN pipe' = pipe \o hostFrame /\ UNCHANGED hostError
       ELSE hostError' = TRUE /\ UNCHANGED pipe
    /\ UNCHANGED <<relay_pupil, relay_notifications, thread_pipe, alive,
                   nSent, inletQ, subs, nPublished, workerVars, sinkVars>>

\* shutdown_thread_loop, line 175: if self.thread_pipe
ShutdownCheck ==
    /\ hostPc = "idle"
    /\ hostPc' = IF thread_pipe = "handle" THEN "send_exit" ELSE "returned"
    /\ UNCHANGED <<relay_pupil, relay_notifications, thread_pipe, alive,
                   hostFrame, hostError, nSent, pipe, inletQ, subs,
                   nPublished, workerVars, sinkVars>>

\* shutdown_thread_loop, line 176: self.thread_pipe.send_string('Exit')
ShutdownSendExit ==
    /\ hostPc = "send_exit"
    /\ IF thread_pipe = "handle"
       THEN /\ pipe' = Append(pipe, ExitCmd)
            /\ hostPc' = "polling"
            /\ UNCHANGED hostError
       ELSE /\ hostError' = TRUE
            /\ hostPc' = "raised"
            /\ UNCHANGED pipe
    /\ UNCHANGED <<relay_pupil, relay_notifications, thread_pipe, alive,
                   hostFrame, nSent, inletQ, subs, nPublished, workerVars,
                   sinkVars>>

\* shutdown_thread_loop, lines 177-178: the loop ends when thread_pipe is
\* falsy; an iteration that sleeps leaves the state as it is
ShutdownPoll ==
    /\ hostPc = "polling"
    /\ thread_pipe # "handle"
    /\ hostPc' = "returned"
    /\ UNCHANGED <<relay_pupil, relay_notifications, thread_pipe, alive,
                   hostFrame, hostError, nSent, pipe, inletQ, subs,
                   nPublished, workerVars, sinkVars>>

\* ------------------------------------------------------------------ worker
\* lines 193-213, Starting: connect, register, initial subscription.
\* failAt names the call that raises: the connection (194), the creation
\* of the pupil outlet (206) or of the notification outlet (211), or none
WorkerStart ==
    /\ pc = "start"
    /\ \E t0 \in Times,
          failAt \in {"none", "connect"}
                     \cup (IF relay_pupil THEN {"pupil"} ELSE {})
                     \cup (IF relay_notifications THEN {"notify"} ELSE {}) :
        LET pupilDone == relay_pupil /\ failAt \in {"none", "notify"}
            notifyDone == relay_notifications /\ failAt = "none"
        IN  /\ pupil_buffer' = IF relay_pupil /\ failAt # "connect"
                               THEN _create_buffer(t0) ELSE pupil_buffer
            /\ pupil_outlet' = IF pupilDone THEN "outlet" ELSE "None"
            /\ notification_outlet' = IF notifyDone THEN "outlet" ELSE "None"
            /\ lsl_outlets' = {r \in {"pupil", "notify"} :
                                    \/ r = "pupil" /\ pupilDone
                                    \/ r = "notify" /\ notifyDone}
            /\ subs' = [t \in InletTopics |->
                            IF \/ t = PUPIL_SUB_TOPIC /\ pupilDone
                               \/ t = NOTIFY_SUB_TOPIC /\ notifyDone
                            THEN 1 ELSE 0]
            /\ error' = IF failAt = "none" THEN error ELSE "Exception"
            /\ pc' = IF failAt = "none" THEN "poll" ELSE "finally"
    /\ UNCHANGED <<hostVars, thread_pipe, alive, pipe, inletQ, nPublished,
                   pupil_outlets, pupil_pushed, notify_pushed, pupil_cmd>>

\* line 216: poller.poll() blocks until a socket is readable and returns
\* the readable ones
PollReady == pipe # <<>> \/ inletQ # <<>>

\* a poll that reports the control channel only when no data is ready
PollItems_dataOnly ==
    IF inletQ # <<>> THEN {"inlet"}
    ELSE IF pipe # <<>> THEN {"pipe"} ELSE {}

PollItems ==
    (IF pipe # <<>> THEN {"pipe"} ELSE {})
    \cup (IF inletQ # <<>> THEN {"inlet"} ELSE {})

\* DataStep without the test of notification_outlet at line 234
DataStep_unguarded(items, exc) ==
    IF "inlet" \notin items
    THEN /\ exc = "none"
         /\ UNCHANGED <<inletQ, pupil_buffer, pupil_pushed, notify_pushed>>
    ELSE LET topic == Head(inletQ).topic
             payload == Head(inletQ).payload
         IN
         /\ inletQ' = Tail(inletQ)
         /\ IF StartsWith(topic, PUPIL_SUB_TOPIC) /\ pupil_outlet # "None"
            THEN IF ~ HasKey(payload, "id")
                    \/ ~ _generate_primitive_sample_ok(payload)
                 THEN /\ exc = "KeyError"
                      /\ UNCHANGED <<pupil_buffer, pupil_pushed,
                                     notify_pushed>>
                 ELSE IF ~ IndexOk(payload["id"])
                 THEN /\ exc = "IndexError"
                      /\ UNCHANGED <<pupil_buffer, pupil_pushed,
                                     notify_pushed>>
                 ELSE /\ pupil_buffer' =
                             _update_buffer(payload["id"], pupil_buffer,
                                 _generate_primitive_sample(payload))
                      /\ \/ /\ exc = "none"
                            /\ pupil_pushed' =
                                 Append(pupil_pushed,
                                        buffer2sample(pupil_buffer'))
                         \/ /\ exc = "Exception"
                            /\ UNCHANGED pupil_pushed
                      /\ UNCHANGED notify_pushed
            ELSE IF StartsWith(topic, NOTIFY_SUB_TOPIC)
            THEN IF ~ HasKey(payload, "subject")
                 THEN /\ exc = "KeyError"
                      /\ UNCHANGED <<pupil_buffer, pupil_pushed,
                                     notify_pushed>>
                 ELSE /\ \/ /\ exc = "none"
                            /\ notify_pushed' =
                                 Append(notify_pushed,
                                        <<payload["subject"], Repr(payload)>>)
                         \/ /\ exc = "Exception"
                            /\ UNCHANGED notify_pushed
                      /\ UNCHANGED <<pupil_buffer, pupil_pushed>>
            ELSE /\ exc = "none"
                 /\ UNCHANGED <<pupil_buffer, pupil_pushed, notify_pushed>>

\* DataStep with each sample put in front of the samples pushed before
DataStep_prepend(items, exc) ==
    IF "inlet" \notin items
    THEN /\ exc = "none"
         /\ UNCHANGED <<inletQ, pupil_buffer, pupil_pushed, notify_pushed>>
    ELSE LET topic == Head(inletQ).topic
             payload == Head(inletQ).payload
         IN
         /\ inletQ' = Tail(inletQ)
         /\ IF StartsWith(topic, PUPIL_SUB_TOPIC) /\ pupil_outlet # "None"
            THEN IF ~ HasKey(payload, "id")
                    \/ ~ _generate_primitive_sample_ok(payload)
                 THEN /\ exc = "KeyError"
                      /\ UNCHANGED <<pupil_buffer, pupil_pushed,
                                     notify_pushed>>
                 ELSE IF ~ IndexOk(payload["id"])
                 THEN /\ exc = "IndexError"
                      /\ UNCHANGED <<pupil_buffer, pupil_pushed,
                                     notify_pushed>>
                 ELSE /\ pupil_buffer' =
                             _update_buffer(payload["id"], pupil_buffer,
                                 _generate_primitive_sample(payload))
                      /\ \/ /\ exc = "none"
                            /\ pupil_pushed' =
                                 <<buffer2sample(pupil_buffer')>>
                                        \o pupil_pushed
                         \/ /\ exc = "Exception"
                            /\ UNCHANGED pupil_pushed
                      /\ UNCHANGED notify_pushed
            ELSE IF /\ StartsWith(topic, NOTIFY_SUB_TOPIC)
                    /\ notification_outlet # "None"
            THEN IF ~ HasKey(payload, "subject")
                 THEN /\ exc = "KeyError"
                      /\ UNCHANGED <<pupil_buffer, pupil_pushed,
                                     notify_pushed>>
                 ELSE /\ \/ /\ exc = "none"
                            /\ notify_pushed' =
                                 <<<<payload["subject"], Repr(payload)>>>>
                                        \o notify_pushed
                         \/ /\ exc = "Exception"
                            /\ UNCHANGED notify_pushed
                      /\ UNCHANGED <<pupil_buffer, pupil_pushed>>
            ELSE /\ exc = "none"
                 /\ UNCHANGED <<pupil_buffer, pupil_pushed, notify_pushed>>

\* lines 218-239: one message of the data inlet, if the poll reported it.
\* exc is the exception the block ends with, "none" when it completes;
\* push_sample may raise ("Exception")
DataStep(items, exc) ==
    IF "inlet" \notin items
    THEN /\ exc = "none"
         /\ UNCHANGED <<inletQ, pupil_buffer, pupil_pushed, notify_pushed>>
    ELSE LET topic == Head(inletQ).topic
             payload == Head(inletQ).payload
         IN
         /\ inletQ' = Tail(inletQ)
         /\ IF StartsWith(topic, PUPIL_SUB_TOPIC) /\ pupil_outlet # "None"
            THEN IF ~ HasKey(payload, "id")
                    \/ ~ _generate_primitive_sample_ok(payload)
                 THEN /\ exc = "KeyError"
                      /\ UNCHANGED <<pupil_buffer, pupil_pushed,
                                     notify_pushed>>
                 ELSE IF ~ IndexOk(payload["id"])
                 THEN /\ exc = "IndexError"
                      /\ UNCHANGED <<pupil_buffer, pupil_pushed,
                                     notify_pushed>>
                 ELSE /\ pupil_buffer' =
                             _update_buffer(payload["id"], pupil_buffer,
                                 _generate_primitive_sample(payload))
                      /\ \/ /\ exc = "none"
                            /\ pupil_pushed' =
                                 Append(pupil_pushed,
                                        buffer2sample(pupil_buffer'))
                         \/ /\ exc = "Exception"
                            /\ UNCHANGED pupil_pushed
                      /\ UNCHANGED notify_pushed
            ELSE IF /\ StartsWith(topic, NOTIFY_SUB_TOPIC)
                    /\ notification_outlet # "None"
            THEN IF ~ HasKey(payload, "subject")
                 THEN /\ exc = "KeyError"
                      /\ UNCHANGED <<pupil_buffer, pupil_pushed,
                                     notify_pushed>>
                 ELSE /\ \/ /\ exc = "none"
                            /\ notify_pushed' =
                                 Append(notify_pushed,
                                        <<payload["subject"], Repr(payload)>>)
                         \/ /\ exc = "Exception"
                            /\ UNCHANGED notify_pushed
                      /\ UNCHANGED <<pupil_buffer, pupil_pushed>>
            ELSE /\ exc = "none"
                 /\ UNCHANGED <<pupil_buffer, pupil_pushed, notify_pushed>>

\* lines 241-263: one command of the control channel, if the poll reported
\* it. recv_string takes one frame; Subscribe and Unsubscribe take a second
\* frame, the topic. exc is "Exit" for the break, the exception the block
\* ends with, or "none"
CtrlStep(items, exc) ==
    IF "pipe" \notin items
    THEN /\ exc = "none"
         /\ UNCHANGED <<pipe, subs, notification_outlet, pupil_outlets,
                        lsl_outlets>>
    ELSE LET cmd == Head(pipe) IN
         IF cmd = ExitCmd
         THEN /\ exc = "Exit"
              /\ pipe' = Tail(pipe)
              /\ UNCHANGED <<subs, notification_outlet, pupil_outlets,
                             lsl_outlets>>
         ELSE IF cmd = SubscribeCmd
         THEN /\ Len(pipe) >= 2
              /\ LET topic == pipe[2] IN
                 /\ pipe' = Tail(Tail(pipe))
                 /\ subs' = Subscribe(subs, topic)
                 /\ IF topic = PUPIL_SUB_TOPIC /\ pupil_outlet = "None"
                    THEN \* self has no _create_pupil_lsl_outlets
                         exc = "AttributeError"
                    ELSE IF /\ topic = NOTIFY_SUB_TOPIC
                            /\ notification_outlet = "None"
                    THEN \* self has no _create_notify_lsl_outlet
                         exc = "AttributeError"
                    ELSE exc = "none"
                 /\ UNCHANGED <<notification_outlet, pupil_outlets,
                                lsl_outlets>>
         ELSE IF cmd = UnsubscribeCmd
         THEN /\ Len(pipe) >= 2
              /\ LET topic == pipe[2] IN
                 /\ pipe' = Tail(Tail(pipe))
                 /\ subs' = Unsubscribe(subs, topic)
                 /\ IF topic = PUPIL_SUB_TOPIC
                    THEN IF pupil_outlets = "unbound"
                         THEN \* pupil_outlets is read before any assignment
                              /\ exc = "UnboundLocalError"
                              /\ UNCHANGED <<notification_outlet,
                                             pupil_outlets, lsl_outlets>>
                         ELSE /\ exc = "none"
                              /\ pupil_outlets' = "None"
                              /\ UNCHANGED <<notification_outlet,
                                             lsl_outlets>>
                    ELSE IF /\ topic = NOTIFY_SUB_TOPIC
                            /\ notification_outlet # "None"
                    THEN /\ exc = "none"
                         /\ notification_outlet' = "None"
                         /\ lsl_outlets' = lsl_outlets \ {"notify"}
                         /\ UNCHANGED pupil_outlets
                    ELSE /\ exc = "none"
                         /\ UNCHANGED <<notification_outlet, pupil_outlets,
                                        lsl_outlets>>
         ELSE /\ exc = "none"
              /\ pipe' = Tail(pipe)
              /\ UNCHANGED <<subs, notification_outlet, pupil_outlets,
                             lsl_outlets>>

DataOutcomes == {"none", "KeyError", "IndexError", "Exception"}
CtrlOutcomes == {"none", "Exit", "AttributeError", "UnboundLocalError"}

\* lines 215-263: one iteration of the while loop: poll, then the data
\* block, then the control block; an exception or the break leaves the loop
LoopIteration ==
    /\ pc = "poll"
    /\ PollReady
    /\ \E e1 \in DataOutcomes :
        /\ DataStep(PollItems, e1)
        /\ IF e1 # "none"
           THEN /\ error' = e1
                /\ pc' = "finally"
                /\ UNCHANGED <<pipe, subs, notification_outlet,
                               pupil_outlets, lsl_outlets>>
           ELSE \E e2 \in CtrlOutcomes :
                /\ CtrlStep(PollItems, e2)
                /\ error' = IF e2 \in {"none", "Exit"} THEN error ELSE e2
                /\ pc' = IF e2 = "none" THEN "poll" ELSE "finally"
    /\ pupil_cmd' = IF /\ Len(pipe') < Len(pipe)
                        /\ Head(pipe) \in {SubscribeCmd, UnsubscribeCmd}
                        /\ pipe[2] = PUPIL_SUB_TOPIC
                     THEN Head(pipe) ELSE pupil_cmd
    /\ UNCHANGED <<hostVars, thread_pipe, alive, nPublished, pupil_outlet>>

\* lines 265-272: except logs the error; finally clears the handle the
\* host polls and the plugin's alive flag
WorkerFinally ==
    /\ pc = "finally"
    /\ thread_pipe' = "None"
    /\ alive' = FALSE
    /\ pc' = "return"
    /\ UNCHANGED <<hostVars, pipe, inletQ, subs, nPublished,
                   pupil_outlet, notification_outlet, pupil_outlets,
                   pupil_buffer, error, sinkVars>>

\* thread_loop returns: its frame is released, and with it the last
\* references to the outlets held in pupil_outlet and notification_outlet
\* and to the inlet, whose socket is closed with what it had queued
WorkerReturn ==
    /\ pc = "return"
    /\ lsl_outlets' = {}
    /\ inletQ' = <<>>
    /\ subs' = [t \in DOMAIN subs |-> 0]
    /\ pc' = "stopped"
    /\ UNCHANGED <<hostVars, thread_pipe, alive, pipe, nPublished,
                   pupil_outlet, notification_outlet, pupil_outlets,
                   pupil_buffer, error, pupil_pushed, notify_pushed,
                   pupil_cmd>>

\* ---------------------------------------------------------- specification
SetValue == \E sub_topic \in SubTopics, value \in BOOLEAN :
                SetValueFirst(sub_topic, value)

Host == \/ HostStoreHandle
        \/ SetValue
        \/ SetValueSecond
        \/ ShutdownCheck
        \/ ShutdownSendExit
        \/ ShutdownPoll

Worker == \/ WorkerStart
          \/ LoopIteration
          \/ WorkerFinally
          \/ WorkerReturn

Next == Host \/ Worker \/ Publish

Spec == Init /\ [][Next]_vars

\* some other holder of the host's end of the control channel sends a
\* command the relay's own UI never sends: an unknown verb, or Subscribe /
\* Unsubscribe naming an unknown topic
SendOther ==
    /\ hostPc = "idle"
    /\ thread_pipe = "handle"
    /\ nSent < MaxSends
    /\ nSent' = nSent + 1
    /\ \E frames \in {<<UnknownCmd>>, <<SubscribeCmd, OtherTopic>>,
                       <<UnsubscribeCmd, OtherTopic>>} :
          pipe' = pipe \o frames
    /\ UNCHANGED <<hostPc, relay_pupil, relay_notifications, thread_pipe,
                   alive, hostFrame, hostError, inletQ, subs, nPublished,
                   workerVars, sinkVars>>

\* the relay with any command on its control channel
CmdSpec == Init /\ [][Next \/ SendOther]_vars

\* both threads are scheduled fairly; publishers and the user are not
\* obliged to act
FairSpec == /\ Spec
            /\ WF_vars(Worker)
            /\ WF_vars(HostStoreHandle)
            /\ WF_vars(SetValueSecond)
            /\ WF_vars(ShutdownSendExit)
            /\ WF_vars(ShutdownPoll)

TypeOK ==
    /\ hostPc \in {"init", "idle", "set_value", "send_exit", "polling",
                   "returned", "raised"}
    /\ thread_pipe \in {"unset", "handle", "None"}
    /\ pc \in {"start", "poll", "finally", "return", "stopped"}
    /\ pupil_outlet \in {"None", "outlet"}
    /\ notification_outlet \in {"None", "outlet"}
    /\ lsl_outlets \subseteq {"pupil", "notify"}
    /\ Len(inletQ) <= MaxPublish
    /\ Len(pipe) <= 2 * MaxSends + 1

\* ------------------------------------------------------ vocabulary of claims
\* the worker is in its loop, between two iterations
Running == pc = "poll"

\* this step is the loop iteration that takes the two-frame command
\* (cmd, topic) off the control channel
Consumes(cmd, topic) ==
    /\ pc = "poll"
    /\ Len(pipe) >= 2
    /\ pipe[1] = cmd
    /\ pipe[2] = topic
    /\ Len(pipe') = Len(pipe) - 2

\* this step is the loop iteration that receives the head of the data inlet
Receives ==
    /\ pc = "poll"
    /\ inletQ # <<>>
    /\ Len(inletQ') = Len(inletQ) - 1

RoleEnabled(topic) ==
    IF topic = PUPIL_SUB_TOPIC THEN pupil_outlet # "None"
    ELSE notification_outlet # "None"

IsPupilMessage(m) == StartsWith(m.topic, PUPIL_SUB_TOPIC)

\* ------------------------------------------------------------------ claims
\* C1: a 'Subscribe <role>' or 'Unsubscribe <role>' command, role in
\* {'pupil.', 'notify.'}, received while Running never stops the worker:
\* after it the worker is still Running, with no error raised and
\* thread_pipe as it was.
C1_ReconfigurationKeepsRunning ==
    [][\A cmd \in {SubscribeCmd, UnsubscribeCmd}, topic \in SubTopics :
          Consumes(cmd, topic) =>
              /\ pc' = "poll"
              /\ error' = "none"
              /\ thread_pipe' = thread_pipe]_vars

\* C2: once shutdown_thread_loop has put 'Exit' on the control channel and
\* polls thread_pipe, the poll loop eventually ends and the call returns
\* (both threads scheduled fairly).
C2_ExitIsLive == (hostPc = "polling") ~> (hostPc = "returned")

\* C3: on the Exit path there is no state in which thread_pipe is already
\* cleared while an outlet is still open or a topic still subscribed.
C3_OutletsClosedBeforeHandleCleared ==
    (thread_pipe = "None" /\ error = "none") =>
        /\ lsl_outlets = {}
        /\ \A t \in SubTopics : subs[t] = 0

\* C4: between two loop iterations a role's outlet handle is present if and
\* only if the inlet is subscribed to the role's topic prefix.
C4_RegistryInvariant ==
    Running =>
        /\ (pupil_outlet # "None") <=> (subs[PUPIL_SUB_TOPIC] > 0)
        /\ (notification_outlet # "None") <=> (subs[NOTIFY_SUB_TOPIC] > 0)

\* C5: 'Subscribe <role>' for a role that is already enabled leaves the
\* outlets unchanged and issues no further subscribe on the transport.
C5_EnableIsIdempotent ==
    [][\A topic \in SubTopics :
          (Consumes(SubscribeCmd, topic) /\ RoleEnabled(topic)) =>
              /\ subs' = subs
              /\ lsl_outlets' = lsl_outlets
              /\ pupil_outlet' = pupil_outlet
              /\ notification_outlet' = notification_outlet]_vars

\* C6: 'Unsubscribe <role>' for a role that is disabled raises no error,
\* leaves outlets, buffer and subscriptions unchanged and the worker Running.
C6_DisableOfDisabledIsNoOp ==
    [][\A topic \in SubTopics :
          (Consumes(UnsubscribeCmd, topic) /\ ~ RoleEnabled(topic)) =>
              /\ pc' = "poll"
              /\ error' = "none"
              /\ subs' = subs
              /\ lsl_outlets' = lsl_outlets
              /\ pupil_outlet' = pupil_outlet
              /\ notification_outlet' = notification_outlet
              /\ pupil_buffer' = pupil_buffer]_vars

\* C7: each step of the round trip Subscribe, Unsubscribe, Subscribe of
\* 'pupil.' does its part: Unsubscribe of the enabled role closes the outlet
\* and leaves the worker Running, and Subscribe of the disabled role leaves
\* it Running with an open outlet and a buffer holding the sentinel
\* (-1.0, 0.0, t) in both slots.
C7_RoundTripResetsBuffer ==
    [][/\ (Consumes(UnsubscribeCmd, PUPIL_SUB_TOPIC)
             /\ RoleEnabled(PUPIL_SUB_TOPIC)) =>
              /\ pc' = "poll"
              /\ pupil_outlet' = "None"
              /\ "pupil" \notin lsl_outlets'
       /\ (Consumes(SubscribeCmd, PUPIL_SUB_TOPIC)
             /\ ~ RoleEnabled(PUPIL_SUB_TOPIC)) =>
              /\ pc' = "poll"
              /\ pupil_outlet' # "None"
              /\ "pupil" \in lsl_outlets'
              /\ \E t \in Times : pupil_buffer' = _create_buffer(t)]_vars

\* C8: from the moment the worker has processed 'Unsubscribe pupil.' until
\* it processes a later 'Subscribe pupil.', the pupil outlet is closed,
\* nothing is pushed to it and no error is raised; and no push ever targets
\* an outlet that is not open.
C8_DroppedAfterUnsubscribe ==
    [][/\ pupil_cmd' = UnsubscribeCmd =>
              /\ error' = "none"
              /\ pupil_pushed' = pupil_pushed
              /\ "pupil" \notin lsl_outlets'
       /\ pupil_pushed' # pupil_pushed => "pupil" \in lsl_outlets]_vars

\* C9: a pupil message that lacks confidence or timestamp is dropped alone:
\* nothing is pushed for it, the buffer is unchanged and no error ends the
\* loop.
C9_MalformedPayloadDropped ==
    [][(/\ Receives
        /\ IsPupilMessage(Head(inletQ))
        /\ ~ _generate_primitive_sample_ok(Head(inletQ).payload)) =>
              /\ pupil_pushed' = pupil_pushed
              /\ pupil_buffer' = pupil_buffer
              /\ error' # "KeyError"]_vars

\* C10: a pupil message whose source id is not 0 or 1 is rejected: neither
\* buffer slot is modified, nothing is pushed for it and no error ends the
\* loop.
C10_InvalidSourceIdRejected ==
    [][(/\ Receives
        /\ IsPupilMessage(Head(inletQ))
        /\ HasKey(Head(inletQ).payload, "id")
        /\ Head(inletQ).payload["id"] \notin {0, 1}) =>
              /\ pupil_pushed' = pupil_pushed
              /\ pupil_buffer' = pupil_buffer
              /\ error' # "IndexError"]_vars

\* this step is a loop iteration that receives a well-formed pupil message
\* with source id 0 or 1 while the pupil role is enabled, and whose
\* push_sample call returns
RelaysPupil ==
    /\ Receives
    /\ IsPupilMessage(Head(inletQ))
    /\ pupil_outlet # "None"
    /\ HasKey(Head(inletQ).payload, "id")
    /\ Head(inletQ).payload["id"] \in {0, 1}
    /\ _generate_primitive_sample_ok(Head(inletQ).payload)
    /\ error' # "Exception"

C12_NotificationRelayed ==
    [][(/\ Receives
        /\ StartsWith(Head(inletQ).topic, NOTIFY_SUB_TOPIC)
        /\ HasKey(Head(inletQ).payload, "subject")) =>
        LET payload == Head(inletQ).payload IN
        /\ pupil_buffer' = pupil_buffer
        /\ pupil_pushed' = pupil_pushed
        /\ error' \notin {"KeyError", "IndexError"}
        /\ IF notification_outlet # "None"
           THEN notify_pushed' =
                    IF error' = "Exception" THEN notify_pushed
                    ELSE Append(notify_pushed,
                                <<payload["subject"], Repr(payload)>>)
           ELSE /\ notify_pushed' = notify_pushed
                /\ error' # "Exception"]_vars

\* C12 witness: the pupil role was never subscribed, two notifications were
\* published and received, one while the role was enabled (pushed) and one
\* after it was disabled (dropped), and the worker is Running
C12_Witness ==
    /\ Running
    /\ error = "none"
    /\ subs[PUPIL_SUB_TOPIC] = 0
    /\ pupil_outlet = "None"
    /\ nPublished = 2
    /\ inletQ = <<>>
    /\ notification_outlet = "None"
    /\ Len(notify_pushed) = 1
    /\ Len(notify_pushed[1]) = 2
    /\ notify_pushed[1][1] = "recording.started"

\* C13: arrival order is preserved. Messages leave the data inlet from its
\* head, one per step, and arrive at its end; every push is appended to the
\* end of its outlet's samples in the step that receives exactly one message
\* and carries that message's data, so the pushed samples follow the relayed
\* messages one to one and in order. Commands leave the control channel from
\* its head, one command per step, and the host's commands arrive at its end.
C13_ArrivalOrderPreserved ==
    [][/\ Len(inletQ') < Len(inletQ) =>
            \/ pc = "poll" /\ inletQ' = Tail(inletQ)
            \/ pc = "return" /\ inletQ' = <<>>
       /\ Len(inletQ') > Len(inletQ) =>
            SubSeq(inletQ', 1, Len(inletQ)) = inletQ
       /\ pupil_pushed' # pupil_pushed =>
            /\ Receives
            /\ IsPupilMessage(Head(inletQ))
            /\ Len(pupil_pushed') = Len(pupil_pushed) + 1
            /\ SubSeq(pupil_pushed', 1, Len(pupil_pushed)) = pupil_pushed
            /\ LET payload == Head(inletQ).payload
                   slot == ListIndex(payload["id"])
                   new == pupil_pushed'[Len(pupil_pushed')]
               IN  /\ new[1 + slot] = IF "diameter" \in DOMAIN payload
                                      THEN payload["diameter"] ELSE -1
                   /\ new[3 + slot] = payload["confidence"]
       /\ notify_pushed' # notify_pushed =>
            /\ Receives
            /\ StartsWith(Head(inletQ).topic, NOTIFY_SUB_TOPIC)
            /\ notify_pushed' =
                 Append(notify_pushed,
                        <<Head(inletQ).payload["subject"],
                          Repr(Head(inletQ).payload)>>)
       /\ Len(pipe') < Len(pipe) =>
            /\ pc = "poll"
            /\ pipe' = IF Head(pipe) \in {SubscribeCmd, UnsubscribeCmd}
                       THEN Tail(Tail(pipe)) ELSE Tail(pipe)
       /\ Len(pipe') > Len(pipe) =>
            SubSeq(pipe', 1, Len(pipe)) = pipe]_vars

\* C13 witness: two pupil messages of eye 0, stamped 1 then 2, were relayed
\* and pushed in that order, and a command was processed
C13_Witness ==
    /\ Running
    /\ pupil_cmd = SubscribeCmd
    /\ Len(pupil_pushed) = 2
    /\ pupil_pushed[1] = <<3, -1, 1, 0, 1>>
    /\ pupil_pushed[2] = <<3, -1, 1, 0, 2>>

\* the head of the data inlet is a message the worker would relay: a
\* well-formed pupil message with id 0 or 1 for the enabled pupil role, or a
\* notification with a subject for the enabled notification role
HeadIsRelayable ==
    /\ inletQ # <<>>
    /\ LET topic == Head(inletQ).topic
           payload == Head(inletQ).payload
       IN  \/ /\ StartsWith(topic, PUPIL_SUB_TOPIC)
              /\ pupil_outlet # "None"
              /\ HasKey(payload, "id")
              /\ payload["id"] \in {0, 1}
              /\ _generate_primitive_sample_ok(payload)
           \/ /\ StartsWith(topic, NOTIFY_SUB_TOPIC)
              /\ ~ StartsWith(topic, PUPIL_SUB_TOPIC)
              /\ notification_outlet # "None"
              /\ HasKey(payload, "subject")

\* C14: a failing push is tolerated: whatever push_sample does for a
\* message, the iteration that received it (and processed no command) leaves
\* the worker Running, with no error ending the loop and its outlets open.
C14_PushFailureTolerated ==
    [][(Receives /\ HeadIsRelayable /\ pipe' = pipe) =>
            /\ pc' = "poll"
            /\ error' = "none"
            /\ lsl_outlets' = lsl_outlets]_vars

\* the worker has left thread_loop's try block for good: its finally block
\* has run
Terminated == pc \in {"return", "stopped"}

\* C15: worker death is always observable: in every state in which the
\* worker has terminated, thread_pipe is cleared (and so stays cleared),
\* also when the worker terminates while __init__ is still storing the
\* handle returned by the fork.
C15_DeathIsObservable == Terminated => thread_pipe = "None"

\* C16: whenever the pupil role is enabled a buffer exists and has exactly
\* two slots, each a complete (value, confidence, timestamp) triple.
C16_BufferInvariant ==
    pupil_outlet # "None" =>
        /\ DOMAIN pupil_buffer = {0, 1}
        /\ \A i \in {0, 1} :
              /\ Len(pupil_buffer[i]) = 3
              /\ \A k \in 1..3 : pupil_buffer[i][k] \in Int

\* C16 witness: the pupil role is enabled after a command and two relayed
\* messages, one of which came with source id -1
C16_Witness ==
    /\ Running
    /\ pupil_outlet # "None"
    /\ pupil_cmd = SubscribeCmd
    /\ Len(pupil_pushed) = 2
    /\ pupil_buffer[0][2] = 1
    /\ pupil_buffer[1][1] = 4

\* this step is the loop iteration that takes off the control channel a
\* command that is not 'Exit', 'Subscribe <known role>' or
\* 'Unsubscribe <known role>'
ConsumesOther ==
    /\ pc = "poll"
    /\ Len(pipe') < Len(pipe)
    /\ \/ Head(pipe) \notin {ExitCmd, SubscribeCmd, UnsubscribeCmd}
       \/ /\ Head(pipe) \in {SubscribeCmd, UnsubscribeCmd}
          /\ pipe[2] \notin SubTopics

\* C17: a command that is not 'Exit', 'Subscribe <known role>' or
\* 'Unsubscribe <known role>' is ignored: outlets, buffer and the inlet's
\* subscriptions are unchanged and the worker stays Running.
C17_OtherCommandIgnored ==
    [][ConsumesOther =>
            /\ pc' = "poll"
            /\ error' = "none"
            /\ subs' = subs
            /\ lsl_outlets' = lsl_outlets
            /\ pupil_outlet' = pupil_outlet
            /\ notification_outlet' = notification_outlet
            /\ pupil_buffer' = pupil_buffer]_vars

\* this step is a loop iteration
Iterates ==
    /\ pc = "poll"
    /\ Len(inletQ') < Len(inletQ) \/ Len(pipe') < Len(pipe)

\* C18: each loop iteration takes exactly one data message if one is ready
\* and, unless the data block raised, exactly one command if one is ready,
\* the data message first: a ready command is processed in the very
\* iteration whose poll saw it, after at most one data message and however
\* many are queued, and a message that raises leaves the command unread.
C18_OneMessageThenOneCommand ==
    [][Iterates =>
        /\ inletQ' = IF inletQ = <<>> THEN inletQ ELSE Tail(inletQ)
        /\ pipe' = IF pipe = <<>>
                      \/ error' \in {"KeyError", "IndexError", "Exception"}
                   THEN pipe
                   ELSE IF Head(pipe) \in {SubscribeCmd, UnsubscribeCmd}
                   THEN Tail(Tail(pipe)) ELSE Tail(pipe)
        /\ (/\ HeadIsRelayable
            /\ ~ IsPupilMessage(Head(inletQ))
            /\ Len(pipe) >= 2
            /\ Head(pipe) = UnsubscribeCmd
            /\ pipe[2] = NOTIFY_SUB_TOPIC
            /\ error' = "none") =>
                /\ Len(notify_pushed') = Len(notify_pushed) + 1
                /\ notification_outlet' = "None"]_vars

\* C18 witness: a command sent while two messages were queued has been
\* processed after the first of them, the second still being queued
C18_Witness ==
    /\ Running
    /\ nPublished = 2
    /\ Len(inletQ) = 1
    /\ nSent = 1
    /\ pipe = <<>>
    /\ hostPc = "idle"
    /\ notification_outlet = "None"
    /\ Len(notify_pushed) = 1
    /\ pupil_pushed = <<>>

\* C19: the host never calls send_string on a thread_pipe that is None,
\* neither in shutdown_thread_loop nor in set_value, whatever the
\* interleaving with the worker's termination.
C19_NoSendOnClearedHandle == hostError = FALSE

\* the timestamp channel of the sample this step pushes is not below that of
\* the previous push
TimestampKept ==
    pupil_pushed # <<>> =>
        pupil_pushed'[Len(pupil_pushed')][5] >=
            pupil_pushed[Len(pupil_pushed)][5]

\* C20 as claimed: within one buffer lifetime, if the timestamps of each
\* source's messages are non-decreasing (the message relayed is the first
\* of its source, whose slot still holds the sentinel with confidence 0.0,
\* or is not older than the source's previous one), the timestamp channel
\* does not decrease from one push to the next, for every creation time t0.
C20_TimestampMonotone ==
    [][(/\ RelaysPupil
        /\ LET payload == Head(inletQ).payload
               slot == pupil_buffer[payload["id"]]
           IN  slot[2] = 0 \/ payload["timestamp"] >= slot[3]) =>
            TimestampKept]_vars

\* C20 as amended: the same, for messages whose timestamp is also not below
\* the creation time t0 that the slot of their source holds until the
\* source first reports.
C20_TimestampMonotoneFromT0 ==
    [][(/\ RelaysPupil
        /\ LET payload == Head(inletQ).payload
               slot == pupil_buffer[payload["id"]]
           IN  payload["timestamp"] >= slot[3]) =>
            TimestampKept]_vars

\* C20 witness: eye 1 reported at 1, then eye 0 at 2, over a buffer created
\* at 1; the timestamp channel went from 1 to 2
C20_Witness ==
    /\ Len(pupil_pushed) = 2
    /\ pupil_pushed[1] = <<-1, 3, 0, 1, 1>>
    /\ pupil_pushed[2] = <<3, 3, 1, 1, 2>>

====
